---- MODULE Spec2Model ----
(***************************************************************************)
(* typstfmt command line driver (src/src/main.rs): argument resolution,    *)
(* configuration loading, the per-document read / format / write loop and  *)
(* the process exit status, over a small file system that persists from    *)
(* one invocation to the next.                                             *)
(***************************************************************************)
EXTENDS Integers, Sequences, FiniteSets, TLC

\* ---------------------------------------------------------------- bounds
\* Most positional tokens (file names) on one command line; flags may repeat
\* without limit.
MaxFiles == 2
\* Texts are the numbers 0..MaxText.
MaxText == 2
\* Invocations in one session on the same file system.
MaxRuns == 2

\* ------------------------------------------------------------- constants
CONFIG_FILE_NAME == "typstfmt.toml"

\* Process status of `Ok(())` returned from main.
ExitOk == 0
\* Process status when main returns `Err(lexopt::Error)`.
ExitErr == 1
\* Process status of a panic (unwrap_or_else(panic!), expect, assert!).
ExitPanic == 101
\* The value exit_status takes on a check-mode mismatch.
CheckFailed == 1

Text == 0 .. MaxText
\* Content of a file that was truncated and not written.
EmptyText == 0

\* Positional tokens: names of files to format.
FileNames == {"a.typ", "b.typ"}
\* Tokens that may follow --output / -o; parser.value() takes the next token
\* whatever it looks like.
OutputValues == {"-", "--check"}
\* Tokens that may follow --config / -c.
ConfigValues == {CONFIG_FILE_NAME, "missing.toml"}
\* Tokens no arm of the match names.
UnknownArgs == {"--bogus", "-x"}

Paths == FileNames \cup (OutputValues \ {"-"}) \cup ConfigValues

\* A file is <<>> when absent and <<t>> when it exists with content t.
NoFile == <<>>
FileOf(t) == <<t>>
Exists(f, p) == f[p] # NoFile
Content(f, p) == f[p][1]

\* ------------------------------------------------- typstfmt_lib (external)
\* Config values: the built-in default and one other.
DefaultConfig == 0
CustomConfig == 1

\* format(content, config): a pure function of its two arguments.  Under the
\* default config it rounds a text down to the even text below it (idempotent);
\* under the other config it steps one text down (format(format(x)) differs
\* from format(x) for x >= 2).
format(content, cfg) ==
    IF cfg = DefaultConfig
    THEN content - (content % 2)
    ELSE IF content > 0 THEN content - 1 ELSE 0

\* Config::from_toml: texts 0, 3, .. do not parse; 1, 4, .. give the other
\* config; 2, 5, .. give the default config.
TomlValid(t) == t % 3 # 0
from_toml(t) == IF t % 3 = 1 THEN CustomConfig ELSE DefaultConfig
\* Config::default_toml()
default_toml == 2

\* ------------------------------------------------------------------ state
VARIABLES
    fs,           \* the file system: path -> NoFile or FileOf(text)
    run,          \* number of the current invocation in the session
    pc,           \* position of the process in main
    inputs,       \* main's `inputs`
    output,       \* main's `output`
    verbose,      \* main's `verbose`
    config_file,  \* main's `config_file`
    config,       \* main's `config` (meaningful after the config is loaded)
    exit_status,  \* main's `exit_status`
    idx,          \* documents the iterator has yielded
    input,        \* the loop's `input`
    status,       \* process exit status (meaningful when pc = "exited")
    reason,       \* how the process ended
    out,          \* what this process wrote to standard output
    docs,         \* log: documents this process has read, in order
    wrlog,        \* log: paths this process opened for writing, in order
    fmtlog,       \* log: number of calls of format by this process
    cfglog,       \* log: paths this process tried to open as its config
    lastSink,     \* log: the last sink-affecting flag parsed, with its value
    fs0,          \* the file system when this process started
    prev          \* session log: the invocation before this one

vars == <<fs, run, pc, inputs, output, verbose, config_file, config,
          exit_status, idx, input, status, reason, out, docs, wrlog, fmtlog,
          cfglog, lastSink, fs0, prev>>

parseVars == <<inputs, output, verbose, config_file, lastSink>>
loopVars == <<config, exit_status, idx, input>>
logVars == <<docs, wrlog, fmtlog, cfglog>>
envVars == <<run, fs0, prev>>

\* ---------------------------------------------------------------- values
Stdin == [kind |-> "Stdin", paths |-> <<>>]
Files(paths) == [kind |-> "Files", paths |-> paths]

OutNone == [kind |-> "None", path |-> ""]
OutCheck == [kind |-> "Check", path |-> ""]
OutStdout == [kind |-> "Stdout", path |-> ""]
OutFile(p) == [kind |-> "File", path |-> p]

NoInput == [name |-> "", content |-> 0]
Input(n, c) == [name |-> n, content |-> c]

\* What a session remembers of the invocation before: the files it formatted
\* in place and the config it used when it ran in place to the end, and
\* whether it wrote any of them.
NoPrev == [files |-> {}, config |-> DefaultConfig, wrote |-> FALSE]
InPlaceRun(files, cfg, wrote) == [files |-> files, config |-> cfg, wrote |-> wrote]

NoFlag == [flag |-> "", value |-> ""]
Flag(f, v) == [flag |-> f, value |-> v]

Msg(m, n) == [k |-> "msg", m |-> m, n |-> n, t |-> 0]
Txt(t) == [k |-> "text", m |-> "", n |-> "", t |-> t]

\* ------------------------------------------------------------- exit paths
Exit(code, why) ==
    /\ pc' = "exited"
    /\ status' = code
    /\ reason' = why

Panic(why) == Exit(ExitPanic, why)

\* ------------------------------------------------------------------- Init
Init ==
    /\ fs \in [Paths -> {NoFile} \cup {FileOf(t) : t \in Text}]
    /\ \A p \in Paths : p \notin FileNames \cup {CONFIG_FILE_NAME} => fs[p] = NoFile
    /\ fs0 = fs
    /\ run = 1
    /\ pc = "args"
    /\ inputs = Stdin
    /\ output = OutNone
    /\ verbose = FALSE
    /\ config_file = CONFIG_FILE_NAME
    /\ config = DefaultConfig
    /\ exit_status = 0
    /\ idx = 0
    /\ input = NoInput
    /\ status = 0
    /\ reason = "running"
    /\ out = <<>>
    /\ docs = <<>>
    /\ wrlog = <<>>
    /\ fmtlog = 0
    /\ cfglog = <<>>
    /\ lastSink = NoFlag
    /\ prev = NoPrev

\* ------------------------------------------------------ argument resolver
\* parser.next() yields another token.
MoreArgs == pc = "args"

ParseVersion ==
    /\ MoreArgs
    /\ \E arg \in {"--version", "-v"} :
        /\ out' = Append(out, Msg("version", ""))
        /\ Exit(ExitOk, "version")
    /\ UNCHANGED <<fs, envVars, parseVars, loopVars, logVars>>

ParseHelp ==
    /\ MoreArgs
    /\ \E arg \in {"--help", "-h"} :
        /\ out' = Append(out, Msg("help", ""))
        /\ Exit(ExitOk, "help")
    /\ UNCHANGED <<fs, envVars, parseVars, loopVars, logVars>>

\* create(true).truncate(true) in place of create_new(true): an existing config
\* file is overwritten.
ParseMakeDefaultConfigOverwrite ==
    /\ MoreArgs
    /\ \E arg \in {"--make-default-config", "-C"} :
        /\ wrlog' = Append(wrlog, CONFIG_FILE_NAME)
        /\ fs' = [fs EXCEPT ![CONFIG_FILE_NAME] = FileOf(default_toml)]
        /\ out' = Append(out, Msg("created", CONFIG_FILE_NAME))
        /\ Exit(ExitOk, "mkconfig")
    /\ UNCHANGED <<envVars, parseVars, loopVars, docs, fmtlog, cfglog>>

\* create_new(true): the open fails when the file exists; any open or write
\* may fail for a reason of the environment.
ParseMakeDefaultConfig ==
    /\ MoreArgs
    /\ \E arg \in {"--make-default-config", "-C"} :
       \E io \in {"openfail", "writefail", "ok"} :
        /\ wrlog' = Append(wrlog, CONFIG_FILE_NAME)
        /\ IF Exists(fs, CONFIG_FILE_NAME) \/ io = "openfail"
           THEN /\ Panic("panic_mkconfig")
                /\ UNCHANGED <<fs, out>>
           ELSE IF io = "writefail"
           THEN /\ fs' = [fs EXCEPT ![CONFIG_FILE_NAME] = FileOf(EmptyText)]
                /\ Panic("panic_mkconfig")
                /\ UNCHANGED out
           ELSE /\ fs' = [fs EXCEPT ![CONFIG_FILE_NAME] = FileOf(default_toml)]
                /\ out' = Append(out, Msg("created", CONFIG_FILE_NAME))
                /\ Exit(ExitOk, "mkconfig")
    /\ UNCHANGED <<envVars, parseVars, loopVars, docs, fmtlog, cfglog>>

\* An unrecognized token is an error of the command line.
ParseUnexpectedErr ==
    /\ MoreArgs
    /\ \E arg \in UnknownArgs :
        /\ out' = out \o <<Msg("unexpected", arg), Msg("usehelp", "")>>
        /\ Exit(ExitErr, "usage")
    /\ UNCHANGED <<fs, envVars, parseVars, loopVars, logVars>>

PushInput(ins, v) ==
    IF ins.kind = "Stdin" THEN Files(<<v>>) ELSE Files(Append(ins.paths, v))

ParseValue ==
    /\ MoreArgs
    /\ Len(inputs.paths) < MaxFiles
    /\ \E v \in FileNames : inputs' = PushInput(inputs, v)
    /\ UNCHANGED <<fs, envVars, pc, output, verbose, config_file, lastSink,
                   loopVars, status, reason, out, logVars>>

ParseStdout ==
    /\ MoreArgs
    /\ output' = OutStdout
    /\ lastSink' = Flag("stdout", "")
    /\ UNCHANGED <<fs, envVars, pc, inputs, verbose, config_file,
                   loopVars, status, reason, out, logVars>>

\* '-' is not told from a file name.
OutputForNoDash(value) == OutFile(value)

OutputFor(value) == IF value = "-" THEN OutStdout ELSE OutFile(value)

\* parser.value()? : the next token, or an error when there is none.
ParseOutput ==
    /\ \E arg \in {"--output", "-o"} :
        \/ /\ MoreArgs
           /\ \E value \in OutputValues :
                /\ output' = OutputFor(value)
                /\ lastSink' = Flag("output", value)
           /\ UNCHANGED <<pc, status, reason>>
        \/ /\ MoreArgs
           /\ Exit(ExitErr, "argerr")
           /\ UNCHANGED <<output, lastSink>>
    /\ UNCHANGED <<fs, envVars, inputs, verbose, config_file,
                   loopVars, out, logVars>>

ParseVerbose ==
    /\ MoreArgs
    /\ verbose' = TRUE
    /\ UNCHANGED <<fs, envVars, pc, inputs, output, config_file, lastSink,
                   loopVars, status, reason, out, logVars>>

ParseConfig ==
    /\ \E arg \in {"--config", "-c"} :
        \/ /\ MoreArgs
           /\ \E value \in ConfigValues : config_file' = value
           /\ UNCHANGED <<pc, status, reason>>
        \/ /\ MoreArgs
           /\ Exit(ExitErr, "argerr")
           /\ UNCHANGED config_file
    /\ UNCHANGED <<fs, envVars, inputs, output, verbose, lastSink,
                   loopVars, out, logVars>>

ParseCheck ==
    /\ MoreArgs
    /\ output' = OutCheck
    /\ lastSink' = Flag("check", "")
    /\ UNCHANGED <<fs, envVars, pc, inputs, verbose, config_file,
                   loopVars, status, reason, out, logVars>>

ParseUnexpected ==
    /\ MoreArgs
    /\ \E arg \in UnknownArgs :
        /\ out' = out \o <<Msg("unexpected", arg), Msg("usehelp", "")>>
        /\ Exit(ExitOk, "usage")
    /\ UNCHANGED <<fs, envVars, parseVars, loopVars, logVars>>

\* parser.next() yields None: the while loop ends.
ParseEnd ==
    /\ pc = "args"
    /\ pc' = "resolve"
    /\ UNCHANGED <<fs, envVars, parseVars, loopVars, status, reason, out,
                   logVars>>

\* ------------------------------------------------------ after the parsing
\* The sink is left as the flags set it.
ResolveOutputKeep(ins, o) == o

ResolveOutput(ins, o) ==
    IF ins.kind = "Stdin" /\ o.kind = "None" THEN OutStdout ELSE o

Resolve ==
    /\ pc = "resolve"
    /\ output' = ResolveOutput(inputs, output)
    /\ pc' = "config"
    /\ UNCHANGED <<fs, envVars, inputs, verbose, config_file, lastSink,
                   loopVars, status, reason, out, logVars>>

\* The value of the `config` block: the config, or the panic of an invalid
\* config file.
ConfigOk(c) == [ok |-> TRUE, cfg |-> c]
ConfigInvalid == [ok |-> FALSE, cfg |-> DefaultConfig]

\* A config file that does not parse is taken for the default config.
ConfigResultLenient(f, path) ==
    IF Exists(f, path) /\ TomlValid(Content(f, path))
    THEN ConfigOk(from_toml(Content(f, path)))
    ELSE ConfigOk(DefaultConfig)

ConfigResult(f, path) ==
    IF Exists(f, path)
    THEN IF TomlValid(Content(f, path))
         THEN ConfigOk(from_toml(Content(f, path)))
         ELSE ConfigInvalid
    ELSE ConfigOk(DefaultConfig)

\* A file that cannot be opened is an absent file; read_to_string on an open
\* file may still fail.
LoadConfig ==
    /\ pc = "config"
    /\ \/ LET r == ConfigResult(fs, config_file) IN
            IF r.ok
            THEN /\ config' = r.cfg
                 /\ pc' = "conflict"
                 /\ UNCHANGED <<status, reason>>
            ELSE /\ Panic("panic_config")
                 /\ UNCHANGED config
       \/ /\ Exists(fs, config_file)
          /\ Panic("panic_configread")
          /\ UNCHANGED config
    /\ cfglog' = Append(cfglog, config_file)
    /\ UNCHANGED <<fs, envVars, parseVars, exit_status, idx, input, out,
                   docs, wrlog, fmtlog>>

\* The length test is off by one.
ConflictOffByOne(ins, o) ==
    ins.kind = "Files" /\ o.kind = "File" /\ Len(ins.paths) > 2

Conflict(ins, o) ==
    ins.kind = "Files" /\ o.kind = "File" /\ Len(ins.paths) > 1

CheckConflict ==
    /\ pc = "conflict"
    /\ IF Conflict(inputs, output)
       THEN Panic("panic_conflict")
       ELSE pc' = "read" /\ UNCHANGED <<status, reason>>
    /\ UNCHANGED <<fs, envVars, parseVars, loopVars, out, logVars>>

\* ------------------------------------------------------------ InputSource
ReadStdin ==
    /\ pc = "read"
    /\ inputs.kind = "Stdin"
    /\ idx = 0
    /\ \/ \E content \in Text :
            /\ input' = Input("stdin", content)
            /\ docs' = Append(docs, Input("stdin", content))
            /\ idx' = 1
            /\ pc' = "write"
            /\ UNCHANGED <<status, reason>>
       \/ /\ Panic("panic_stdin")
          /\ UNCHANGED <<input, docs, idx>>
    /\ UNCHANGED <<fs, envVars, parseVars, config, exit_status, out,
                   wrlog, fmtlog, cfglog>>

\* A file that cannot be opened is skipped and the loop goes on.
ReadFileSkip ==
    /\ pc = "read"
    /\ inputs.kind = "Files"
    /\ idx < Len(inputs.paths)
    /\ LET path == inputs.paths[idx + 1] IN
        IF Exists(fs, path)
        THEN /\ input' = Input(path, Content(fs, path))
             /\ docs' = Append(docs, Input(path, Content(fs, path)))
             /\ pc' = "write"
        ELSE /\ pc' = "read"
             /\ UNCHANGED <<input, docs>>
    /\ idx' = idx + 1
    /\ UNCHANGED <<fs, envVars, parseVars, config, exit_status, out,
                   wrlog, fmtlog, cfglog, status, reason>>

ReadFile ==
    /\ pc = "read"
    /\ inputs.kind = "Files"
    /\ idx < Len(inputs.paths)
    /\ LET path == inputs.paths[idx + 1] IN
        \/ /\ Exists(fs, path)
           /\ input' = Input(path, Content(fs, path))
           /\ docs' = Append(docs, Input(path, Content(fs, path)))
           /\ idx' = idx + 1
           /\ pc' = "write"
           /\ UNCHANGED <<status, reason>>
        \/ /\ Panic(IF Exists(fs, path) THEN "panic_read" ELSE "panic_open")
           /\ UNCHANGED <<input, docs, idx>>
    /\ UNCHANGED <<fs, envVars, parseVars, config, exit_status, out,
                   wrlog, fmtlog, cfglog>>

\* The iterator ends one document early.
ExhaustedEarly(ins, i) ==
    IF ins.kind = "Stdin" THEN i = 1 ELSE i >= Len(ins.paths) - 1

Exhausted(ins, i) ==
    IF ins.kind = "Stdin" THEN i = 1 ELSE i = Len(ins.paths)

ReadDone ==
    /\ pc = "read"
    /\ Exhausted(inputs, idx)
    /\ pc' = "finish"
    /\ UNCHANGED <<fs, envVars, parseVars, loopVars, status, reason, out,
                   logVars>>

\* ------------------------------------------------------------- OutputSink
\* File::options().create(true).write(true).truncate(true).open(path), then
\* write_all(text): the destination after each outcome.
WriteFile(path, text, io) ==
    /\ wrlog' = Append(wrlog, path)
    /\ IF io = "openfail"
       THEN UNCHANGED fs
       ELSE IF io = "writefail"
       THEN fs' = [fs EXCEPT ![path] = FileOf(EmptyText)]
       ELSE fs' = [fs EXCEPT ![path] = FileOf(text)]

\* The early return is missing.
UpToDateNever(content, formatted) == FALSE

\* The test is inverted.
UpToDateInverted(content, formatted) == formatted # content

UpToDate(content, formatted) == formatted = content

WriteNone(formatted) ==
    /\ output.kind = "None"
    /\ IF UpToDate(input.content, formatted)
       THEN /\ out' = Append(out, Msg("uptodate", input.name))
            /\ pc' = "read"
            /\ UNCHANGED <<fs, wrlog, status, reason, exit_status>>
       ELSE \E io \in {"openfail", "writefail", "ok"} :
            /\ WriteFile(input.name, formatted, io)
            /\ IF io = "ok"
               THEN /\ out' = IF verbose
                              THEN Append(out, Msg("overwritten", input.name))
                              ELSE out
                    /\ pc' = "read"
                    /\ UNCHANGED <<status, reason>>
               ELSE /\ Panic("panic_write")
                    /\ UNCHANGED out
            /\ UNCHANGED exit_status

Mismatch(content, formatted) == content # formatted

\* A later document that matches resets the status.
WriteCheckReset(formatted) ==
    /\ output.kind = "Check"
    /\ exit_status' = IF Mismatch(input.content, formatted) THEN CheckFailed ELSE 0
    /\ out' = IF verbose
              THEN Append(out, Msg(IF Mismatch(input.content, formatted)
                                   THEN "needsformatting"
                                   ELSE "alreadyformatted", input.name))
              ELSE out
    /\ pc' = "read"
    /\ UNCHANGED <<fs, wrlog, status, reason>>

\* A mismatch is reported and the file is rewritten as well.
WriteCheckOverwrite(formatted) ==
    /\ output.kind = "Check"
    /\ IF Mismatch(input.content, formatted)
       THEN /\ out' = IF verbose
                      THEN Append(out, Msg("needsformatting", input.name))
                      ELSE out
            /\ exit_status' = CheckFailed
            /\ WriteFile(input.name, formatted, "ok")
       ELSE /\ out' = IF verbose
                      THEN Append(out, Msg("alreadyformatted", input.name))
                      ELSE out
            /\ UNCHANGED <<exit_status, fs, wrlog>>
    /\ pc' = "read"
    /\ UNCHANGED <<status, reason>>

WriteCheck(formatted) ==
    /\ output.kind = "Check"
    /\ IF Mismatch(input.content, formatted)
       THEN /\ out' = IF verbose
                      THEN Append(out, Msg("needsformatting", input.name))
                      ELSE out
            /\ exit_status' = CheckFailed
       ELSE /\ out' = IF verbose
                      THEN Append(out, Msg("alreadyformatted", input.name))
                      ELSE out
            /\ UNCHANGED exit_status
    /\ pc' = "read"
    /\ UNCHANGED <<fs, wrlog, status, reason>>

\* A document that is already formatted is not written to the stream.
WriteStdoutSkipUnchanged(formatted) ==
    /\ output.kind = "Stdout"
    /\ out' = IF formatted = input.content
              THEN out
              ELSE out \o (IF verbose THEN <<Msg("header", input.name)>> ELSE <<>>)
                       \o <<Txt(formatted)>>
    /\ pc' = "read"
    /\ UNCHANGED <<fs, wrlog, exit_status, status, reason>>

WriteStdout(formatted) ==
    /\ output.kind = "Stdout"
    /\ LET hdr == IF verbose THEN <<Msg("header", input.name)>> ELSE <<>> IN
        \/ /\ out' = out \o hdr \o <<Txt(formatted)>>
           /\ pc' = "read"
           /\ UNCHANGED <<status, reason>>
        \/ /\ out' = out \o hdr
           /\ Panic("panic_stdout")
    /\ UNCHANGED <<fs, wrlog, exit_status>>

WriteToFile(formatted) ==
    /\ output.kind = "File"
    /\ \E io \in {"openfail", "writefail", "ok"} :
        /\ WriteFile(output.path, formatted, io)
        /\ IF io = "ok"
           THEN pc' = "read" /\ UNCHANGED <<status, reason>>
           ELSE Panic("panic_write")
    /\ UNCHANGED <<out, exit_status>>

\* One iteration of the for loop's body: format, then output.write.
FormatWrite ==
    /\ pc = "write"
    /\ fmtlog' = fmtlog + 1
    /\ LET formatted == format(input.content, config) IN
        \/ WriteNone(formatted)
        \/ WriteCheck(formatted)
        \/ WriteStdout(formatted)
        \/ WriteToFile(formatted)
    /\ UNCHANGED <<envVars, parseVars, config, idx, input, docs, cfglog>>

\* ---------------------------------------------------------- end of main
FinalStatus(es) == IF es = 0 THEN ExitOk ELSE es

Finish ==
    /\ pc = "finish"
    /\ Exit(FinalStatus(exit_status), "done")
    /\ UNCHANGED <<fs, envVars, parseVars, loopVars, out, logVars>>

\* ------------------------------------------------- the next invocation
Exec ==
    /\ pc = "exited"
    /\ run < MaxRuns
    /\ run' = run + 1
    /\ fs0' = fs
    /\ pc' = "args"
    /\ inputs' = Stdin
    /\ output' = OutNone
    /\ verbose' = FALSE
    /\ config_file' = CONFIG_FILE_NAME
    /\ config' = DefaultConfig
    /\ exit_status' = 0
    /\ idx' = 0
    /\ input' = NoInput
    /\ status' = 0
    /\ reason' = "running"
    /\ out' = <<>>
    /\ docs' = <<>>
    /\ wrlog' = <<>>
    /\ fmtlog' = 0
    /\ cfglog' = <<>>
    /\ lastSink' = NoFlag
    /\ prev' = IF reason = "done" /\ output.kind = "None"
               THEN InPlaceRun({inputs.paths[i] : i \in 1 .. Len(inputs.paths)},
                               config, wrlog # <<>>)
               ELSE NoPrev
    /\ UNCHANGED fs

Next ==
    \/ ParseVersion
    \/ ParseHelp
    \/ ParseMakeDefaultConfig
    \/ ParseValue
    \/ ParseStdout
    \/ ParseOutput
    \/ ParseVerbose
    \/ ParseConfig
    \/ ParseCheck
    \/ ParseUnexpected
    \/ ParseEnd
    \/ Resolve
    \/ LoadConfig
    \/ CheckConflict
    \/ ReadStdin
    \/ ReadFile
    \/ ReadDone
    \/ FormatWrite
    \/ Finish

\* One invocation.
Spec == Init /\ [][Next]_vars

\* The steps of main after the parsing loop.
RunStep ==
    \/ Resolve
    \/ LoadConfig
    \/ CheckConflict
    \/ ReadStdin
    \/ ReadFile
    \/ ReadDone
    \/ FormatWrite
    \/ Finish

\* One invocation that runs on: the command line is finite, so parser.next()
\* comes to yield None unless an arm returned first, and the single thread
\* takes each following step (every read and write is a blocking call that
\* returns).
SpecLive == Init /\ [][Next]_vars /\ WF_vars(ParseEnd) /\ WF_vars(RunStep)

\* A session: invocations one after the other on the same file system.
NextSession ==
    \/ Next
    \/ Exec

SpecSession == Init /\ [][NextSession]_vars

\* ================================================================ claims
\* Ways the process ends once the arguments are resolved.
RunReasons ==
    {"panic_config", "panic_configread", "panic_conflict", "panic_stdin",
     "panic_open", "panic_read", "panic_write", "panic_stdout", "done"}

\* Every way the process ends on a fatal condition.
FatalReasons ==
    {"argerr", "panic_mkconfig", "panic_config", "panic_configread",
     "panic_conflict", "panic_stdin", "panic_open", "panic_read",
     "panic_write", "panic_stdout"}

\* The arguments resolved to a run configuration.
Resolved ==
    \/ pc \in {"config", "conflict", "read", "write", "finish"}
    \/ pc = "exited" /\ reason \in RunReasons

\* The config block has produced a Config.
ConfigLoaded ==
    \/ pc \in {"conflict", "read", "write", "finish"}
    \/ pc = "exited" /\ reason \in RunReasons \ {"panic_config", "panic_configread"}

\* The run completed without a fatal condition.
Completed == pc = "exited" /\ reason = "done"

NeedsFormatting(content) == format(content, config) # content

\* The documents of a Files source, as the file system held them at the start.
DocsAtStart ==
    [i \in 1 .. Len(inputs.paths) |->
        Input(inputs.paths[i], Content(fs0, inputs.paths[i]))]

\* C1: a completed run with the Check sink has read every document of the
\* source, and exits 1 exactly when at least one of them differs from its
\* formatted text, and 0 otherwise.
C1_CheckExitStatus ==
    (Completed /\ output.kind = "Check") =>
        /\ IF inputs.kind = "Files"
           THEN docs = DocsAtStart
           ELSE Len(docs) = 1 /\ docs[1].name = "stdin"
        /\ status = IF \E i \in 1 .. Len(docs) : NeedsFormatting(docs[i].content)
                    THEN 1
                    ELSE 0

\* A check of two files, the first needing formatting and the second not.
C1_Witness ==
    /\ Completed
    /\ output.kind = "Check"
    /\ Len(docs) = 2
    /\ NeedsFormatting(docs[1].content)
    /\ ~NeedsFormatting(docs[2].content)
    /\ status = 1

\* C2: every fatal condition ends the process with a status that is neither
\* 0 nor the check-mode status 1.
C2_FatalStatusDistinct ==
    (pc = "exited" /\ reason \in FatalReasons) => status \notin {0, CheckFailed}

\* C3: when the arguments resolve to two or more files and a ToFile sink, the
\* process never reaches the loop: no document is read or formatted, no
\* destination is opened, and it ends with a non-zero status.
C3_ConflictRejected ==
    (Resolved /\ inputs.kind = "Files" /\ Len(inputs.paths) >= 2
              /\ output.kind = "File") =>
        /\ pc \in {"config", "conflict", "exited"}
        /\ docs = <<>>
        /\ fmtlog = 0
        /\ wrlog = <<>>
        /\ fs = fs0
        /\ pc = "exited" =>
              /\ status # 0
              /\ reason \in {"panic_config", "panic_configread", "panic_conflict"}

\* Two existing files and --output <path>: the assertion ended the process.
C3_Witness ==
    /\ pc = "exited"
    /\ reason = "panic_conflict"
    /\ Len(inputs.paths) = 2
    /\ \A i \in 1 .. 2 : Exists(fs, inputs.paths[i])
    /\ output = OutFile("--check")

\* What omitting --config yields on the file system of the start: the Config
\* loaded from the default path.
ConfigWhenOmitted == ConfigResult(fs0, CONFIG_FILE_NAME)

\* C4 as stated: a config path that does not exist yields the Config that
\* omitting --config yields, both the built-in default.
C4_MissingSameAsOmitted ==
    (ConfigLoaded /\ ~Exists(fs0, config_file)) =>
        /\ config = DefaultConfig
        /\ ConfigWhenOmitted = ConfigOk(config)

\* C4 amended: a config path that does not exist yields the built-in default
\* Config, which is what omitting --config yields when typstfmt.toml is absent
\* too; a config file that exists and does not parse ends the process with a
\* panic before any document is read, formatted or written.
C4_ConfigFallback ==
    /\ (ConfigLoaded /\ ~Exists(fs0, config_file)) =>
            /\ config = DefaultConfig
            /\ ~Exists(fs0, CONFIG_FILE_NAME) => ConfigWhenOmitted = ConfigOk(config)
    /\ (ConfigLoaded /\ Exists(fs0, config_file)) =>
            /\ TomlValid(Content(fs0, config_file))
            /\ config = from_toml(Content(fs0, config_file))
    /\ (Resolved /\ Exists(fs0, config_file)
                 /\ ~TomlValid(Content(fs0, config_file))) =>
            /\ pc \in {"config", "exited"}
            /\ pc = "exited" =>
                  /\ reason \in {"panic_config", "panic_configread"}
                  /\ status = ExitPanic
            /\ docs = <<>>
            /\ fmtlog = 0
            /\ wrlog = <<>>
            /\ fs = fs0

\* --config names a missing path while typstfmt.toml is missing too, and the
\* run went on with the default config; or the config file did not parse and
\* the process panicked with input files at hand.
C4_Witness ==
    \/ /\ Completed
       /\ config_file = "missing.toml"
       /\ ~Exists(fs0, CONFIG_FILE_NAME)
       /\ config = DefaultConfig
       /\ Len(docs) = 2
    \/ /\ pc = "exited"
       /\ reason = "panic_config"
       /\ inputs.kind = "Files"
       /\ Exists(fs0, inputs.paths[1])

\* Names of the documents already dispatched that needed formatting, in order.
RECURSIVE RewrittenNames(_, _)
RewrittenNames(ds, n) ==
    IF n = 0
    THEN <<>>
    ELSE LET rest == RewrittenNames(ds, n - 1) IN
         IF NeedsFormatting(ds[n].content)
         THEN Append(rest, ds[n].name)
         ELSE rest

\* C5: with the InPlace sink the files opened for writing are exactly the
\* documents that differ from their formatted text (none for a document that
\* is already formatted), and when the write of such a document has succeeded
\* its file holds exactly the formatted text.
C5_InPlaceWrites ==
    (Resolved /\ output.kind = "None" /\ pc # "write") =>
        /\ wrlog = RewrittenNames(docs, Len(docs))
        /\ (pc = "read" /\ Len(docs) > 0) =>
              LET d == docs[Len(docs)] IN
                IF NeedsFormatting(d.content)
                THEN fs[d.name] = FileOf(format(d.content, config))
                ELSE fs[d.name] = FileOf(d.content)
        /\ \A p \in Paths : (\A i \in 1 .. Len(wrlog) : wrlog[i] # p) => fs[p] = fs0[p]

\* An in-place run over one file that needed formatting and one that did not.
C5_Witness ==
    /\ Completed
    /\ output.kind = "None"
    /\ Len(docs) = 2
    /\ docs[1].name # docs[2].name
    /\ NeedsFormatting(docs[1].content)
    /\ ~NeedsFormatting(docs[2].content)
    /\ wrlog = <<docs[1].name>>
    /\ fs[docs[1].name] # fs0[docs[1].name]
    /\ fs[docs[2].name] = fs0[docs[2].name]

\* The sink a sink-affecting flag selects.
SinkOf(f) ==
    IF f.flag = "check" THEN OutCheck
    ELSE IF f.flag = "stdout" THEN OutStdout
    ELSE IF f.value = "-" THEN OutStdout
    ELSE OutFile(f.value)

\* C6: once the arguments are resolved the source Stdin never goes with the
\* sink InPlace: without positional token and output flag the sink is Stdout,
\* an explicitly selected sink stays as selected, and with a positional token
\* and no output flag the sink is InPlace.
C6_StdinNeverInPlace ==
    Resolved =>
        /\ ~(inputs.kind = "Stdin" /\ output.kind = "None")
        /\ (inputs.kind = "Stdin" /\ lastSink = NoFlag) => output = OutStdout
        /\ (inputs.kind = "Stdin" /\ lastSink # NoFlag) => output = SinkOf(lastSink)
        /\ (inputs.kind = "Files" /\ lastSink = NoFlag) => output = OutNone

\* Standard input with no flag at all, formatted to standard output.
C6_Witness ==
    /\ Completed
    /\ inputs.kind = "Stdin"
    /\ lastSink = NoFlag
    /\ output = OutStdout
    /\ Len(docs) = 1
    /\ \E i \in 1 .. Len(out) : out[i].k = "text"

\* C7: in a run whose resolved sink is Check no file is opened for writing
\* and every file holds what it held when the process started.
C7_CheckWritesNothing ==
    (Resolved /\ output.kind = "Check") => wrlog = <<>> /\ fs = fs0

\* A check that found a file needing formatting, and one that did not.
C7_Witness ==
    /\ Completed
    /\ output.kind = "Check"
    /\ Len(docs) = 2
    /\ NeedsFormatting(docs[1].content)
    /\ ~NeedsFormatting(docs[2].content)
    /\ fs = fs0

\* C8: the process that met an unrecognized token printed the usage hint and
\* exited 0, having read no document, opened no config, formatted nothing and
\* written nothing, whatever it had parsed before.
C8_UnknownTokenSoftExit ==
    (pc = "exited" /\ reason = "usage") =>
        /\ status = 0
        /\ Len(out) = 2 /\ out[1].m = "unexpected" /\ out[2].m = "usehelp"
        /\ docs = <<>>
        /\ cfglog = <<>>
        /\ fmtlog = 0
        /\ wrlog = <<>>
        /\ fs = fs0

\* An unrecognized token after files, --check and --config were parsed.
C8_Witness ==
    /\ pc = "exited"
    /\ reason = "usage"
    /\ status = 0
    /\ Len(inputs.paths) = 2
    /\ output = OutCheck
    /\ verbose
    /\ config_file = "missing.toml"

\* C9: whenever a sink-affecting flag has been parsed the sink is the one the
\* last such flag selects, during the parsing and in the resolved run; the
\* sink is always one of the four variants.
C9_LastSinkFlagWins ==
    /\ output.kind \in {"None", "Check", "Stdout", "File"}
    /\ lastSink # NoFlag => output = SinkOf(lastSink)
    /\ (lastSink = NoFlag /\ ~Resolved) => output = OutNone

\* A run that resolved to Stdout through --output - and completed over files:
\* the flag overrode the InPlace default.
C9_Witness ==
    /\ Completed
    /\ lastSink = Flag("output", "-")
    /\ output = OutStdout
    /\ inputs.kind = "Files"
    /\ Len(docs) = 2

\* format is idempotent under cfg.
Idempotent(cfg) ==
    \A t \in Text : format(format(t, cfg), cfg) = format(t, cfg)

FileSet == {inputs.paths[i] : i \in 1 .. Len(inputs.paths)}

\* C10: in a session on one file system, with a config under which format is
\* idempotent: a completed check run over a document needing formatting exits
\* 1 and leaves every file as it was; a completed in-place run exits 0 and
\* leaves each of its files holding the formatted text of what it held; and a
\* completed check run on the same files with the same config right after a
\* completed in-place run exits 0.
C10_CheckFormatCheck ==
    (Completed /\ Idempotent(config)) =>
        /\ (output.kind = "Check"
              /\ \E i \in 1 .. Len(docs) : NeedsFormatting(docs[i].content)) =>
                status = 1 /\ fs = fs0
        /\ output.kind = "None" =>
                /\ status = 0
                /\ \A p \in FileSet :
                      fs[p] = FileOf(format(Content(fs0, p), config))
        /\ (output.kind = "Check" /\ prev # NoPrev /\ inputs.kind = "Files"
              /\ FileSet = prev.files /\ config = prev.config) =>
                status = 0

\* The second invocation of a session: a check of two files that exits 0
\* right after an in-place run that rewrote one of them.
C10_Witness ==
    /\ run = 2
    /\ Completed
    /\ output.kind = "Check"
    /\ status = 0
    /\ prev.wrote
    /\ FileSet = prev.files
    /\ Cardinality(FileSet) = 2
    /\ config = prev.config
    /\ Idempotent(config)

\* C11: a run that completed without --verbose printed no message: nothing at
\* all with the InPlace, Check and ToFile sinks, and only formatted text with
\* the Stdout sink.
C11_SilentWithoutVerbose ==
    (Completed /\ ~verbose) =>
        /\ \A i \in 1 .. Len(out) : out[i].k = "text"
        /\ output.kind # "Stdout" => out = <<>>

\* The process touched nothing but standard output: no config opened, no
\* document read or formatted, no file opened for writing, every file as at
\* the start.
TouchedNothing ==
    /\ docs = <<>>
    /\ cfglog = <<>>
    /\ fmtlog = 0
    /\ wrlog = <<>>
    /\ fs = fs0

\* C12: the version and help actions end the process with status 0 having
\* touched nothing; make-default-config ends it with status 0 only when
\* typstfmt.toml was absent, and then the file holds the default content and
\* nothing else changed; when typstfmt.toml existed the action is fatal with a
\* non-zero status and every file is as it was.  No document is read or
\* formatted and no config is loaded in any of these.
C12_ImmediateActions ==
    /\ (pc = "exited" /\ reason = "version") =>
            status = 0 /\ TouchedNothing /\ out = <<Msg("version", "")>>
    /\ (pc = "exited" /\ reason = "help") =>
            status = 0 /\ TouchedNothing /\ out = <<Msg("help", "")>>
    /\ (pc = "exited" /\ reason = "mkconfig") =>
            /\ status = 0
            /\ ~Exists(fs0, CONFIG_FILE_NAME)
            /\ fs = [fs0 EXCEPT ![CONFIG_FILE_NAME] = FileOf(default_toml)]
            /\ wrlog = <<CONFIG_FILE_NAME>>
            /\ docs = <<>> /\ cfglog = <<>> /\ fmtlog = 0
    /\ (pc = "exited" /\ reason = "panic_mkconfig") =>
            /\ status # 0
            /\ docs = <<>> /\ cfglog = <<>> /\ fmtlog = 0
            /\ Exists(fs0, CONFIG_FILE_NAME) => fs = fs0
            /\ \A p \in Paths \ {CONFIG_FILE_NAME} : fs[p] = fs0[p]

\* make-default-config after two files, --check and --verbose were parsed:
\* the config file was created and the files were not read.
C12_Witness ==
    /\ pc = "exited"
    /\ reason = "mkconfig"
    /\ status = 0
    /\ Len(inputs.paths) = 2
    /\ \A i \in 1 .. 2 : Exists(fs, inputs.paths[i])
    /\ output = OutCheck
    /\ fs[CONFIG_FILE_NAME] = FileOf(default_toml)

\* C13: exit_status is 0 or 1 in every state; it is 0 until the loop runs and
\* for the whole of a run whose sink is not Check; and the only change it ever
\* makes is from 0 to 1, in the loop body of a Check run on a document that
\* differs from its formatted text (so it never goes from 1 back to 0).
C13_ExitStatusSticky ==
    /\ [](/\ exit_status \in {0, 1}
          /\ pc \in {"args", "resolve", "config", "conflict"} => exit_status = 0
          /\ output.kind # "Check" => exit_status = 0)
    /\ [][exit_status' # exit_status =>
            /\ exit_status = 0
            /\ exit_status' = 1
            /\ pc = "write"
            /\ output.kind = "Check"
            /\ NeedsFormatting(input.content)]_vars

\* A check run that recorded a mismatch on its first document and has since
\* dispatched a second document that matched.
C13_Witness ==
    /\ pc = "read"
    /\ output.kind = "Check"
    /\ fmtlog = 2
    /\ NeedsFormatting(docs[1].content)
    /\ ~NeedsFormatting(docs[2].content)
    /\ exit_status = 1

\* The process ended on a failure to open or read a file of the source.
ReadFailed == pc = "exited" /\ reason \in {"panic_open", "panic_read"}

\* The file p as the in-place writes of the first n documents leave it: the
\* formatted text of the last of them that was read from p and needed
\* formatting, else what p held at the start.
InPlaceFile(p, n) ==
    LET W == {i \in 1 .. n : docs[i].name = p /\ NeedsFormatting(docs[i].content)} IN
    IF W = {}
    THEN fs0[p]
    ELSE LET last == CHOOSE i \in W : \A j \in W : j <= i IN
         FileOf(format(docs[last].content, config))

\* C14: when the open or read of the k-th file of a Files source fails, the
\* process ends at once with the panic status, which is neither 0 nor the
\* check-mode 1 whatever exit_status holds; the k-1 files before it were read,
\* formatted and dispatched and their in-place writes are in the file system;
\* the k-th file and those after it were neither read, formatted nor written.
\* The loop never gets past a file it could not read.
C14_ReadFailureAborts ==
    /\ ReadFailed =>
        /\ inputs.kind = "Files"
        /\ idx < Len(inputs.paths)
        /\ status \notin {0, CheckFailed}
        /\ (reason = "panic_open") = ~Exists(fs, inputs.paths[idx + 1])
        /\ Len(docs) = idx
        /\ fmtlog = idx
        /\ \A i \in 1 .. idx : docs[i].name = inputs.paths[i]
        /\ wrlog = IF output.kind = "None" THEN RewrittenNames(docs, idx) ELSE <<>>
        /\ \A p \in Paths :
              fs[p] = IF output.kind = "None" THEN InPlaceFile(p, idx) ELSE fs0[p]
        /\ output.kind = "Stdout" =>
              Len(SelectSeq(out, LAMBDA e : e.k = "text")) = idx
    /\ (Resolved /\ inputs.kind = "Files") =>
        /\ Len(docs) = idx
        /\ \A i \in 1 .. idx : docs[i].name = inputs.paths[i]
        /\ Completed => idx = Len(inputs.paths)

\* A check of two files: the first needed formatting, so exit_status is 1, and
\* the second could not be opened; the process ended with the panic status.
C14_Witness ==
    /\ ReadFailed
    /\ reason = "panic_open"
    /\ output.kind = "Check"
    /\ Len(inputs.paths) = 2
    /\ idx = 1
    /\ exit_status = 1
    /\ status = ExitPanic

\* The formatted texts of the documents dispatched so far, in order.
FormattedTexts == [i \in 1 .. fmtlog |-> Txt(format(docs[i].content, config))]

\* The same with the header of each document before its text.
HeadedTexts ==
    [j \in 1 .. 2 * fmtlog |->
        IF j % 2 = 1
        THEN Msg("header", docs[(j + 1) \div 2].name)
        ELSE Txt(format(docs[j \div 2].content, config))]

\* Between two documents of a run over files that has not failed.
BetweenDocuments ==
    /\ Resolved
    /\ inputs.kind = "Files"
    /\ pc \in {"read", "finish", "exited"}
    /\ reason \in {"running", "done"}

\* Documents are read in list order, each only after the document before it
\* was dispatched, and each read sees the in-place writes made before it.
InListOrder ==
    (Resolved /\ inputs.kind = "Files") =>
        /\ Len(docs) = idx
        /\ Len(docs) = IF pc = "write" THEN fmtlog + 1 ELSE fmtlog
        /\ \A i \in 1 .. Len(docs) :
              /\ docs[i].name = inputs.paths[i]
              /\ FileOf(docs[i].content) =
                    IF output.kind = "None"
                    THEN InPlaceFile(docs[i].name, i - 1)
                    ELSE fs0[docs[i].name]

\* C15 as stated: documents are processed in list order without interleaving,
\* and with the Stdout sink the stream holds exactly the formatted texts of
\* the documents, in order.
C15_StdoutExactConcatenation ==
    /\ InListOrder
    /\ (BetweenDocuments /\ output.kind = "Stdout") => out = FormattedTexts

\* C15 amended: documents are processed in list order without interleaving
\* (a later read sees the earlier in-place writes); with the Stdout sink one
\* formatted text per document reaches the stream, in list order, also for an
\* unchanged document; without --verbose the stream holds exactly these
\* texts, and with --verbose each is preceded on the same stream by a header
\* naming its document.
C15_InOrderNoInterleaving ==
    /\ InListOrder
    /\ (BetweenDocuments /\ output.kind = "Stdout") =>
        /\ SelectSeq(out, LAMBDA e : e.k = "text") = FormattedTexts
        /\ out = IF verbose THEN HeadedTexts ELSE FormattedTexts

\* A completed run to standard output over two files, the second of them
\* already formatted, without --verbose: both texts are on the stream.
C15_Witness ==
    /\ Completed
    /\ inputs.kind = "Files"
    /\ output.kind = "Stdout"
    /\ ~verbose
    /\ Len(docs) = 2
    /\ NeedsFormatting(docs[1].content)
    /\ ~NeedsFormatting(docs[2].content)
    /\ out = <<Txt(format(docs[1].content, config)), Txt(docs[2].content)>>

\* The number of documents of the source.
NumDocs == IF inputs.kind = "Stdin" THEN 1 ELSE Len(inputs.paths)

\* The three ways a process ends.
ImmediateExit ==
    /\ reason \in {"version", "help", "mkconfig", "usage"}
    /\ status = 0
    /\ cfglog = <<>> /\ docs = <<>> /\ fmtlog = 0
FatalAbort == reason \in FatalReasons /\ status # 0
Done == reason = "done" /\ status \in {0, CheckFailed}

\* C16: every invocation ends, in exactly one of an immediate or soft exit
\* with status 0 during the resolution, a fatal abort, or Done; a process that
\* reached Done has read, formatted and dispatched each document of its
\* source exactly once, in order: one document named "stdin" for Stdin, one
\* per positional token for Files, whose list is never empty.
C16_Terminates ==
    /\ <>(pc = "exited")
    /\ [](pc = "exited" =>
            /\ ImmediateExit \/ FatalAbort \/ Done
            /\ ~(ImmediateExit /\ FatalAbort)
            /\ ~(ImmediateExit /\ Done)
            /\ ~(FatalAbort /\ Done))
    /\ [](inputs.kind = "Files" => Len(inputs.paths) >= 1)
    /\ [](Completed =>
            /\ Len(docs) = NumDocs
            /\ idx = NumDocs
            /\ fmtlog = NumDocs
            /\ inputs.kind = "Stdin" => docs[1].name = "stdin"
            /\ inputs.kind = "Files" =>
                  \A i \in 1 .. NumDocs : docs[i].name = inputs.paths[i]
            /\ output.kind = "Stdout" =>
                  Len(SelectSeq(out, LAMBDA e : e.k = "text")) = NumDocs
            /\ output.kind = "File" => wrlog = <<output.path>>)

\* A run over two files that reached Done after two reads and two dispatches.
C16_Witness ==
    /\ Completed
    /\ inputs.kind = "Files"
    /\ NumDocs = 2
    /\ Len(docs) = 2
    /\ fmtlog = 2

====
